---- MODULE Spec2Model ----
(***************************************************************************)
(* Model of the calculator pipeline of time_series_analysis:              *)
(*   - calculator_config/*.py : config construction and validation        *)
(*   - calculators/base.py    : CalculatorBase.execute (schema contract)  *)
(*   - calculators/daily_returns.py : compute_returns and the buffered    *)
(*     DailyReturnsCalculator                                             *)
(*   - calculators/yfinance_stock_data.py : the stock-data calculator     *)
(*   - sources.py             : the acquisition functions                 *)
(*   - calculations.py        : the steps of the Metrics engine           *)
(*                                                                         *)
(* Time is counted in ticks; a calendar day has TicksPerDay ticks.  A      *)
(* datetime is a record [wall, aware, off]: the wall-clock reading, whether*)
(* it carries a tzinfo, and the UTC offset of that tzinfo (0 when naive). *)
(* An optional object (a config, a table) is a sequence of length 0 or 1. *)
(***************************************************************************)
EXTENDS Integers, Sequences, FiniteSets, TLC

VARIABLES
    cfgArgs,    \* <<>> or <<[cls, start, end, tickers]>>: the arguments of the constructor call
    cfg,        \* <<>> or <<[cls, start, end, tickers]>>: the config object, if one exists
    cfgBuilt,   \* the field values the config object had when its constructor returned
    cfgErr,     \* "none" or the message of the error the constructor raised
    assigns,    \* number of attribute assignments made on the config object
    panel,      \* <<>> or <<df>>: the price panel handed to compute_returns
    result,     \* <<>> or <<df>>: what compute_returns returned for panel
    panel2,     \* <<>> or <<df>>: a second panel, made of rows of panel
    result2,    \* <<>> or <<df>>: what compute_returns returned for panel2
    calls,      \* the calls made to the acquisition functions of sources.py, in order
    fetched,    \* <<>> or <<df>>: the frame the acquisition function returned
    calcOut,    \* <<>> or <<df>>: the table calculate() returned to execute()
    out,        \* <<>> or <<df>>: the table execute() returned
    raised,     \* the error execute() raised: [kind, col], kind "none" when it returned
    history,    \* the observations the price provider holds: a set of <<ticker, day>>
    inputTable, \* <<>> or <<df>>: the table first handed to a step of Metrics
    table,      \* <<>> or <<df>>: the table the caller of Metrics holds now
    lastIn,     \* <<>> or <<df>>: the table the last step of Metrics was called on
    steps,      \* the names of the steps of Metrics called so far, in order
    stepErr     \* the error the last step of Metrics raised, kind "none" when it returned

cfgVars == <<cfgArgs, cfg, cfgBuilt, cfgErr, assigns>>

retVars == <<panel, result, panel2, result2>>

exeVars == <<calls, fetched, calcOut, out, raised, history>>

metVars == <<inputTable, table, lastIn, steps, stepErr>>

vars == <<cfgArgs, cfg, cfgBuilt, cfgErr, assigns, panel, result, panel2, result2,
          calls, fetched, calcOut, out, raised, history,
          inputTable, table, lastIn, steps, stepErr>>

-----------------------------------------------------------------------------
(* Bounds of the model *)

MaxWall == 3        \* wall-clock readings of constructor arguments are 0..MaxWall
MaxOffset == 1      \* tzinfo offsets of constructor arguments are -MaxOffset..MaxOffset
MaxTickers == 2     \* ticker lists have at most MaxTickers entries
MaxAssign == 1      \* attribute assignments made on one config object

TickerNames == {"", "A", "B"}

SeqsUpTo(S, n) == UNION {[1..k -> S] : k \in 0..n}

Naive(w) == [wall |-> w, aware |-> FALSE, off |-> 0]
Aware(w, o) == [wall |-> w, aware |-> TRUE, off |-> o]

ArgDatetimes ==
    {Naive(w) : w \in 0..MaxWall}
        \cup {Aware(w, o) : w \in 0..MaxWall, o \in (0 - MaxOffset)..MaxOffset}

ArgTickers == SeqsUpTo(TickerNames, MaxTickers)

ConfigClasses ==
    {"BaseConfig", "DailyReturnsCalculatorConfig", "YFinanceStockDataCalculatorConfig"}

-----------------------------------------------------------------------------
(* calculator_config/base.py *)

UTC == 0

\* datetime.replace(tzinfo=timezone.utc): same wall clock, tzinfo set
replace_tzinfo_utc(v) == [wall |-> v.wall, aware |-> TRUE, off |-> UTC]

\* datetime.astimezone(timezone.utc): same instant, wall clock moved to UTC
astimezone_utc(v) == [wall |-> v.wall - v.off, aware |-> TRUE, off |-> UTC]

set_utc_defaults_keepwall(v) == replace_tzinfo_utc(v)

\* BaseConfig.set_utc_defaults, for one of the fields "start", "end"
set_utc_defaults(v) ==
    IF ~v.aware THEN replace_tzinfo_utc(v) ELSE astimezone_utc(v)

\* datetime.__ge__ of two aware datetimes: the instants are compared
datetime_ge(a, b) == a.wall - a.off >= b.wall - b.off

validate_start_before_end_nonstrict(start, end) ==
    IF ~datetime_ge(end, start) THEN "start must be strictly before end" ELSE "none"

\* BaseConfig.validate_start_before_end: the error it raises, or "none"
validate_start_before_end(start, end) ==
    IF datetime_ge(start, end) THEN "start must be strictly before end" ELSE "none"

(* calculator_config/daily_returns.py, calculator_config/yfinance_stock_data.py *)

tickers_never_rejected(v) == "none"

\* DailyReturnsCalculatorConfig.tickers_must_not_be_empty: `if not v`
DailyReturns_tickers_must_not_be_empty(v) ==
    IF v = <<>> THEN "tickers must contain at least one entry" ELSE "none"

\* YFinanceStockDataCalculatorConfig.tickers_must_not_be_empty: `if len(v) == 0`
YFinance_tickers_must_not_be_empty(v) ==
    IF Len(v) = 0 THEN "tickers must contain at least one entry" ELSE "none"

\* The classes that declare the field `tickers: list[str]`
HasTickers(cls) == cls \in {"DailyReturnsCalculatorConfig", "YFinanceStockDataCalculatorConfig"}

\* The field validators of class cls, run on the tickers argument
FieldErrors(cls, tickers) ==
    CASE cls = "DailyReturnsCalculatorConfig" -> DailyReturns_tickers_must_not_be_empty(tickers)
      [] cls = "YFinanceStockDataCalculatorConfig" -> YFinance_tickers_must_not_be_empty(tickers)
      [] OTHER -> "none"

\* The constructor cls(start=..., end=..., tickers=...): the "before" model
\* validator, then the field validators, then (only if no field failed) the
\* "after" model validator.  The result is [err, obj]: obj is <<>> when the
\* constructor raised.
NewConfig(cls, start, end, tickers) ==
    LET s == set_utc_defaults(start)
        e == set_utc_defaults(end)
        t == IF HasTickers(cls) THEN tickers ELSE <<>>
        fieldErr == FieldErrors(cls, tickers)
        err == IF fieldErr # "none" THEN fieldErr ELSE validate_start_before_end(s, e)
    IN  [err |-> err,
         obj |-> IF err = "none"
                 THEN <<[cls |-> cls, start |-> s, end |-> e, tickers |-> t]>>
                 ELSE <<>>]

\* A constructor call with arguments drawn from the bounded sets
ConstructConfig ==
    /\ cfgArgs = <<>>
    /\ \E cls \in ConfigClasses, start \in ArgDatetimes, end \in ArgDatetimes,
          tickers \in ArgTickers :
          LET r == NewConfig(cls, start, end, tickers)
          IN  /\ cfgArgs' = <<[cls |-> cls, start |-> start, end |-> end, tickers |-> tickers]>>
              /\ cfg' = r.obj
              /\ cfgBuilt' = r.obj
              /\ cfgErr' = r.err
    /\ UNCHANGED <<assigns, retVars, exeVars, metVars>>

\* `config.<field> = v` on a constructed config.  The classes set no
\* model_config (neither frozen nor validate_assignment), so the assignment
\* stores v as it is and runs no validator.  The values assigned here are the
\* config's own end (to start), its own start (to end) and the empty list.
SetAttr ==
    /\ cfg # <<>>
    /\ assigns < MaxAssign
    /\ \/ cfg' = <<[cfg[1] EXCEPT !.start = cfg[1].end]>>
       \/ cfg' = <<[cfg[1] EXCEPT !.end = cfg[1].start]>>
       \/ /\ HasTickers(cfg[1].cls)
          /\ cfg' = <<[cfg[1] EXCEPT !.tickers = <<>>]>>
    /\ assigns' = assigns + 1
    /\ UNCHANGED <<cfgArgs, cfgBuilt, cfgErr, retVars, exeVars, metVars>>

NoConfig ==
    /\ cfgArgs = <<>>
    /\ cfg = <<>>
    /\ cfgBuilt = <<>>
    /\ cfgErr = "none"
    /\ assigns = 0

NoPanel ==
    /\ panel = <<>>
    /\ result = <<>>
    /\ panel2 = <<>>
    /\ result2 = <<>>

NoError == [kind |-> "none", col |-> ""]

NoExecute ==
    /\ calls = <<>>
    /\ fetched = <<>>
    /\ calcOut = <<>>
    /\ out = <<>>
    /\ raised = NoError
    /\ history = {}

NoMetrics ==
    /\ inputTable = <<>>
    /\ table = <<>>
    /\ lastIn = <<>>
    /\ steps = <<>>
    /\ stepErr = NoError

InitConfig == NoConfig /\ NoPanel /\ NoExecute /\ NoMetrics

NextConfig == ConstructConfig \/ SetAttr

SpecConfig == InitConfig /\ [][NextConfig]_vars

-----------------------------------------------------------------------------
(* Claims about config construction *)

\* The UTC instant a constructor argument denotes: a naive datetime is read
\* as UTC, an aware one lies off ticks ahead of UTC.
Instant(v) == IF v.aware THEN v.wall - v.off ELSE v.wall

TickersValid(a) == HasTickers(a.cls) => Len(a.tickers) > 0

Constructed == cfgArgs # <<>>

\* C3: construction fails whenever start == end or start > end and succeeds
\* whenever start < end (with a valid ticker list); on failure no config
\* object exists.
C3_StartBeforeEnd ==
    Constructed =>
        LET a == cfgArgs[1] IN
        /\ Instant(a.start) >= Instant(a.end) => cfgErr # "none"
        /\ (Instant(a.start) < Instant(a.end) /\ TickersValid(a)) => cfgErr = "none"
        /\ cfgErr # "none" => cfgBuilt = <<>>
        /\ cfgErr = "none" => cfgBuilt # <<>>

C3_Witness ==
    /\ Constructed
    /\ Instant(cfgArgs[1].start) = Instant(cfgArgs[1].end)
    /\ TickersValid(cfgArgs[1])
    /\ cfgErr = "start must be strictly before end"
    /\ cfgBuilt = <<>>

C5_ConfigImmutable ==
    cfg # <<>> =>
        /\ cfg = cfgBuilt
        /\ ~datetime_ge(cfg[1].start, cfg[1].end)
        /\ HasTickers(cfg[1].cls) => cfg[1].tickers # <<>>

\* C6: construction fails when tickers is empty, for both config classes that
\* have tickers, and accepts any non-empty list of strings (given start < end).
C6_TickersNonEmpty ==
    (Constructed /\ HasTickers(cfgArgs[1].cls)) =>
        LET a == cfgArgs[1] IN
        /\ a.tickers = <<>> => (cfgErr # "none" /\ cfgBuilt = <<>>)
        /\ (a.tickers # <<>> /\ Instant(a.start) < Instant(a.end)) =>
              /\ cfgErr = "none"
              /\ cfgBuilt # <<>>
              /\ cfgBuilt[1].tickers = a.tickers

C6_Witness ==
    /\ Constructed
    /\ cfgArgs[1].cls = "YFinanceStockDataCalculatorConfig"
    /\ cfgArgs[1].tickers = <<>>
    /\ Instant(cfgArgs[1].start) < Instant(cfgArgs[1].end)
    /\ cfgErr = "tickers must contain at least one entry"
    /\ cfgBuilt = <<>>

-----------------------------------------------------------------------------
(* Float64 cells.  A cell is null, a finite number, an infinity or NaN.     *)
(* Finite numbers are integers in the unit of their column: CLOSE in price  *)
(* units, ARITHMETIC_RETURN in units of 1/PriceScale, LOG_RETURN in units   *)
(* of ln 2.  Close prices are 0 or powers of two, so both are exact.        *)

MaxDate == 2        \* business dates of panel rows are 0..MaxDate
MaxRows == 3        \* a panel has at most MaxRows rows

PanelDates == 0..MaxDate
PanelTickers == {"A", "B"}

\* The close of ticker t on day d: the closes of the days 0..MaxDate all
\* differ, so a return tells which two observations it was computed from; the
\* closes of the days outside 0..MaxDate repeat them.
ClosePrice(t, d) ==
    IF t = "A" THEN 2 ^ (d % (MaxDate + 1)) ELSE 2 ^ (2 * MaxDate + 1 - (d % (MaxDate + 1)))

PriceScale == 2 ^ (2 * MaxDate + 1)

Null == [k |-> "null", v |-> 0]
Fin(x) == [k |-> "fin", v |-> x]
PosInf == [k |-> "inf", v |-> 1]
NegInf == [k |-> "inf", v |-> 0 - 1]
NaN == [k |-> "nan", v |-> 0]

Sign(x) == IF x > 0 THEN 1 ELSE IF x < 0 THEN 0 - 1 ELSE 0
Inf(sign) == [k |-> "inf", v |-> sign]

\* a - b on Float64 cells (polars: null if an operand is null; IEEE 754 else)
FSub(a, b) ==
    CASE a.k = "null" \/ b.k = "null" -> Null
      [] a.k = "nan" \/ b.k = "nan" -> NaN
      [] a.k = "inf" /\ b.k = "inf" -> IF a.v = b.v THEN NaN ELSE a
      [] a.k = "inf" -> a
      [] b.k = "inf" -> Inf(0 - b.v)
      [] OTHER -> Fin(a.v - b.v)

\* a / b on Float64 cells, the quotient in units of 1/PriceScale
FDiv(a, b) ==
    CASE a.k = "null" \/ b.k = "null" -> Null
      [] a.k = "nan" \/ b.k = "nan" -> NaN
      [] a.k = "inf" /\ b.k = "inf" -> NaN
      [] a.k = "inf" -> Inf(IF b.v < 0 THEN 0 - a.v ELSE a.v)
      [] b.k = "inf" -> Fin(0)
      [] b.v = 0 -> IF a.v = 0 THEN NaN ELSE Inf(Sign(a.v))
      [] OTHER -> Fin((a.v * PriceScale) \div b.v)

\* the k with 2^k = x, for x a power of two
Log2(x) == CHOOSE k \in 0..(2 * MaxDate + 2) : 2 ^ k = x

\* Expr.log() on a Float64 cell, the logarithm in units of ln 2
FLog(a) ==
    CASE a.k = "null" -> Null
      [] a.k = "nan" -> NaN
      [] a.k = "inf" -> IF a.v > 0 THEN PosInf ELSE NaN
      [] a.v = 0 -> NegInf
      [] a.v < 0 -> NaN
      [] OTHER -> Fin(Log2(a.v))

-----------------------------------------------------------------------------
(* polars DataFrames.  A frame is [schema, rows]: schema is the sequence of *)
(* its columns as [name, dtype], rows the sequence of its rows, each a      *)
(* record with one field per column.                                        *)

Range(f) == {f[i] : i \in DOMAIN f}

Columns(df) == [i \in DOMAIN df.schema |-> df.schema[i].name]

HasColumn(df, c) == \E i \in DOMAIN df.schema : df.schema[i].name = c

DtypeOf(df, c) == df.schema[CHOOSE i \in DOMAIN df.schema : df.schema[i].name = c].dtype

\* DataFrame.with_columns(<expressions>): cols are the [name, dtype] of the
\* expressions and cells[c][i] the value of expression c at row i.  A column
\* of that name is replaced where it stands, a new one is appended.
with_columns(df, cols, cells) ==
    LET names == {cols[k].name : k \in DOMAIN cols}
        Of(c) == cols[CHOOSE k \in DOMAIN cols : cols[k].name = c]
    IN  [schema |-> [i \in DOMAIN df.schema |->
                        IF df.schema[i].name \in names THEN Of(df.schema[i].name)
                        ELSE df.schema[i]]
                    \o SelectSeq(cols, LAMBDA col : ~HasColumn(df, col.name)),
         rows |-> [i \in DOMAIN df.rows |->
                      [c \in DOMAIN df.rows[i] \cup names |->
                          IF c \in names THEN cells[c][i] ELSE df.rows[i][c]]]]

\* DataFrame.select(names), for names that are columns of df
select(df, names) ==
    [schema |-> [i \in DOMAIN names |-> [name |-> names[i], dtype |-> DtypeOf(df, names[i])]],
     rows |-> [i \in DOMAIN df.rows |-> [c \in Range(names) |-> df.rows[i][c]]]]

\* DataFrame.drop(c), for a column c of df
drop(df, c) ==
    [schema |-> SelectSeq(df.schema, LAMBDA col : col.name # c),
     rows |-> [i \in DOMAIN df.rows |->
                  [x \in DOMAIN df.rows[i] \ {c} |-> df.rows[i][x]]]]

\* DataFrame.filter(predicate): the rows at which the predicate, evaluated to
\* the Boolean column mask, is true, in their order
RECURSIVE filter_rows(_, _, _)
filter_rows(rows, mask, i) ==
    IF i > Len(rows) THEN <<>>
    ELSE (IF mask[i] THEN <<rows[i]>> ELSE <<>>) \o filter_rows(rows, mask, i + 1)

filter(df, mask) == [schema |-> df.schema, rows |-> filter_rows(df.rows, mask, 1)]

\* The order of Utf8 values (byte-wise)
TickerRank(t) == CASE t = "" -> 0 [] t = "A" -> 1 [] t = "B" -> 2

RowBefore(r1, r2) ==
    \/ TickerRank(r1.TICKER) < TickerRank(r2.TICKER)
    \/ r1.TICKER = r2.TICKER /\ r1.BUSINESS_DATE < r2.BUSINESS_DATE

RECURSIVE SortRows(_)
SortRows(rows) ==
    IF rows = <<>> THEN <<>>
    ELSE LET r == rows[Len(rows)]
             done == SortRows(SubSeq(rows, 1, Len(rows) - 1))
             k == Cardinality({i \in DOMAIN done : ~RowBefore(r, done[i])})
         IN  SubSeq(done, 1, k) \o <<r>> \o SubSeq(done, k + 1, Len(done))

sort_nothing(df) == df

\* DataFrame.sort("TICKER", "BUSINESS_DATE")
sort(df) == [schema |-> df.schema, rows |-> SortRows(df.rows)]

-----------------------------------------------------------------------------
(* calculators/daily_returns.py: compute_returns *)

Max(S) == CHOOSE x \in S : \A y \in S : y <= x
Min(S) == CHOOSE x \in S : \A y \in S : x <= y

shift_1_no_over(rows, i) == IF i = 1 THEN Null ELSE rows[i - 1].CLOSE

shift_minus_1_over_ticker(rows, i) ==
    LET later == {j \in DOMAIN rows : j > i /\ rows[j].TICKER = rows[i].TICKER}
    IN  IF later = {} THEN Null ELSE rows[Min(later)].CLOSE

\* pl.col("CLOSE").shift(1).over("TICKER"), at row i: the CLOSE of the row
\* before row i among the rows of the same TICKER, in the frame's row order
shift_1_over_ticker(rows, i) ==
    LET earlier == {j \in DOMAIN rows : j < i /\ rows[j].TICKER = rows[i].TICKER}
    IN  IF earlier = {} THEN Null ELSE rows[Max(earlier)].CLOSE

\* pl.col("CLOSE").log() - pl.col("PREV_CLOSE").log()
log_return(r) == FSub(FLog(r.CLOSE), FLog(r.PREV_CLOSE))

arithmetic_return_over_close(r) == FDiv(FSub(r.CLOSE, r.PREV_CLOSE), r.CLOSE)

\* (pl.col("CLOSE") - pl.col("PREV_CLOSE")) / pl.col("PREV_CLOSE")
arithmetic_return(r) == FDiv(FSub(r.CLOSE, r.PREV_CLOSE), r.PREV_CLOSE)

compute_returns(df) ==
    LET withPrev == with_columns(df, << [name |-> "PREV_CLOSE", dtype |-> "Float64"] >>,
                        [c \in {"PREV_CLOSE"} |->
                            [i \in DOMAIN df.rows |-> shift_1_over_ticker(df.rows, i)]])
        withReturns == with_columns(withPrev,
                        << [name |-> "LOG_RETURN", dtype |-> "Float64"],
                           [name |-> "ARITHMETIC_RETURN", dtype |-> "Float64"] >>,
                        [c \in {"LOG_RETURN", "ARITHMETIC_RETURN"} |->
                            [i \in DOMAIN df.rows |->
                                IF c = "LOG_RETURN" THEN log_return(withPrev.rows[i])
                                ELSE arithmetic_return(withPrev.rows[i])]])
    IN  drop(withReturns, "PREV_CLOSE")

\* Price panels: BUSINESS_DATE, TICKER, CLOSE; (TICKER, BUSINESS_DATE) unique;
\* the rows in any order.
PanelSchema ==
    << [name |-> "BUSINESS_DATE", dtype |-> "Date"],
       [name |-> "TICKER", dtype |-> "Utf8"],
       [name |-> "CLOSE", dtype |-> "Float64"] >>

PanelRow(t, d) == [BUSINESS_DATE |-> d, TICKER |-> t, CLOSE |-> Fin(ClosePrice(t, d))]

PanelRows == {PanelRow(t, d) : t \in PanelTickers, d \in PanelDates}

\* the sequences of at most n distinct elements of S
RECURSIVE Arrangements(_, _)
Arrangements(S, n) ==
    IF n = 0 THEN {<<>>}
    ELSE {<<>>} \cup UNION {{<<x>> \o t : t \in Arrangements(S \ {x}, n - 1)} : x \in S}

Panels == {[schema |-> PanelSchema, rows |-> rows] : rows \in Arrangements(PanelRows, MaxRows)}

\* the panels in which one close is zero
ZeroClosePanels ==
    UNION {{[df EXCEPT !.rows[i].CLOSE = Fin(0)] : i \in DOMAIN df.rows} : df \in Panels}

\* the frames made of rows of df: rows removed, permuted, interleaved differently
Rearrangements(df) ==
    {[schema |-> df.schema, rows |-> rows] :
        rows \in Arrangements(Range(df.rows), Len(df.rows))}

\* compute_returns(panel)
ComputeReturns ==
    /\ panel # <<>>
    /\ result = <<>>
    /\ result' = <<compute_returns(panel[1])>>
    /\ UNCHANGED <<panel, panel2, result2, cfgVars, exeVars, metVars>>

\* compute_returns on a second frame made of rows of panel
ComputeReturnsAgain ==
    /\ result # <<>>
    /\ panel2 = <<>>
    /\ \E df \in Rearrangements(panel[1]) :
          /\ panel2' = <<df>>
          /\ result2' = <<compute_returns(df)>>
    /\ UNCHANGED <<panel, result, cfgVars, exeVars, metVars>>

InitReturns ==
    /\ panel \in {<<df>> : df \in Panels \cup ZeroClosePanels}
    /\ result = <<>>
    /\ panel2 = <<>>
    /\ result2 = <<>>
    /\ NoConfig
    /\ NoExecute
    /\ NoMetrics

NextReturns == ComputeReturns \/ ComputeReturnsAgain

SpecReturns == InitReturns /\ [][NextReturns]_vars

-----------------------------------------------------------------------------
(* Claims about compute_returns *)

SameTicker(rows, i, j) == rows[i].TICKER = rows[j].TICKER

\* row i is the chronologically first observation of its instrument
ChronoFirst(rows, i) ==
    \A j \in DOMAIN rows : SameTicker(rows, i, j) => rows[i].BUSINESS_DATE <= rows[j].BUSINESS_DATE

\* the index of the observation of the same instrument immediately before row i by date
ChronoPrev(rows, i) ==
    CHOOSE j \in DOMAIN rows :
        /\ SameTicker(rows, i, j)
        /\ rows[j].BUSINESS_DATE < rows[i].BUSINESS_DATE
        /\ \A h \in DOMAIN rows :
              (SameTicker(rows, i, h) /\ rows[h].BUSINESS_DATE < rows[i].BUSINESS_DATE)
                  => rows[h].BUSINESS_DATE <= rows[j].BUSINESS_DATE

\* the rows of each instrument stand in ascending date order
DateAscendingPerTicker(rows) ==
    \A i, j \in DOMAIN rows :
        (i < j /\ SameTicker(rows, i, j)) => rows[i].BUSINESS_DATE < rows[j].BUSINESS_DATE

PositiveCloses(rows) == \A i \in DOMAIN rows : rows[i].CLOSE.k = "fin" /\ rows[i].CLOSE.v > 0

NullReturns(r) == r.LOG_RETURN = Null /\ r.ARITHMETIC_RETURN = Null
NoNullReturn(r) == r.LOG_RETURN # Null /\ r.ARITHMETIC_RETURN # Null

FirstNullOthersNot(in, res) ==
    /\ Len(res) = Len(in)
    /\ \A i \in DOMAIN in :
          IF ChronoFirst(in, i) THEN NullReturns(res[i]) ELSE NoNullReturn(res[i])

\* C7 as stated: for every price panel with unique (instrument, date) pairs,
\* in whatever row order the rows arrive, the chronologically first
\* observation of each instrument has null LOG_RETURN and ARITHMETIC_RETURN
\* and no other row of that instrument has null returns (prices positive).
C7_FirstNullAnyOrder ==
    (result # <<>> /\ PositiveCloses(panel[1].rows)) =>
        FirstNullOthersNot(panel[1].rows, result[1].rows)

\* C7 as amended: the same, for the panels in which the rows of each
\* instrument arrive in ascending date order.
C7_FirstNullWhenSorted ==
    (result # <<>> /\ PositiveCloses(panel[1].rows) /\ DateAscendingPerTicker(panel[1].rows)) =>
        FirstNullOthersNot(panel[1].rows, result[1].rows)

C7_Witness ==
    /\ result # <<>>
    /\ DateAscendingPerTicker(panel[1].rows)
    /\ Len(panel[1].rows) = 3
    /\ panel[1].rows[1].TICKER = "A"
    /\ panel[1].rows[2].TICKER = "B"
    /\ panel[1].rows[3].TICKER = "A"
    /\ NullReturns(result[1].rows[1])
    /\ NullReturns(result[1].rows[2])
    /\ NoNullReturn(result[1].rows[3])

\* ln(close) - ln(prev) in units of ln 2, and (close - prev) / prev in units
\* of 1/PriceScale, for positive closes
ExpectedLog(close, prev) == Fin(Log2(close.v) - Log2(prev.v))
ExpectedArithmetic(close, prev) == Fin(((close.v - prev.v) * PriceScale) \div prev.v)

ReturnsAgainstChronoPrev(in, res) ==
    \A i \in DOMAIN in :
        ~ChronoFirst(in, i) =>
            LET prev == in[ChronoPrev(in, i)].CLOSE IN
            /\ res[i].LOG_RETURN = ExpectedLog(in[i].CLOSE, prev)
            /\ res[i].ARITHMETIC_RETURN = ExpectedArithmetic(in[i].CLOSE, prev)

\* the output has the rows of the input, in their order, with the input's
\* columns unchanged and exactly LOG_RETURN and ARITHMETIC_RETURN added
SameRowsPlusReturns(in, res) ==
    /\ Len(res.rows) = Len(in.rows)
    /\ res.schema = in.schema \o << [name |-> "LOG_RETURN", dtype |-> "Float64"],
                                    [name |-> "ARITHMETIC_RETURN", dtype |-> "Float64"] >>
    /\ \A i \in DOMAIN in.rows :
          /\ DOMAIN res.rows[i] = Range(Columns(res))
          /\ \A c \in Range(Columns(in)) : res.rows[i][c] = in.rows[i][c]

\* C8 as stated: for every row that is not the chronologically first of its
\* instrument, LOG_RETURN = ln(close) - ln(prev_close) and ARITHMETIC_RETURN =
\* (close - prev_close) / prev_close, prev_close being the close of the
\* immediately preceding observation by date of the same instrument; the
\* output has the same rows as the input plus exactly these two columns.
C8_ReturnsFormulaAnyOrder ==
    (result # <<>> /\ PositiveCloses(panel[1].rows)) =>
        /\ ReturnsAgainstChronoPrev(panel[1].rows, result[1].rows)
        /\ SameRowsPlusReturns(panel[1], result[1])

\* C8 as amended: the same, for the panels in which the rows of each
\* instrument arrive in ascending date order.
C8_ReturnsFormulaWhenSorted ==
    (result # <<>> /\ PositiveCloses(panel[1].rows) /\ DateAscendingPerTicker(panel[1].rows)) =>
        /\ ReturnsAgainstChronoPrev(panel[1].rows, result[1].rows)
        /\ SameRowsPlusReturns(panel[1], result[1])

\* three observations of one instrument: the third is computed against the
\* second, not the first
C8_Witness ==
    /\ result # <<>>
    /\ DateAscendingPerTicker(panel[1].rows)
    /\ Len(panel[1].rows) = 3
    /\ \A i \in 1..3 : panel[1].rows[i].TICKER = "B"
    /\ result[1].rows[3].LOG_RETURN = Fin(0 - 1)
    /\ result[1].rows[3].ARITHMETIC_RETURN = Fin(0 - (PriceScale \div 2))

\* the rows of instrument t, in the frame's order
TickerRows(df, t) == SelectSeq(df.rows, LAMBDA r : r.TICKER = t)

\* C9: no cross-partition bleed: for two panels that contain the same rows of
\* an instrument in the same relative order and differ only in the rows of the
\* other instruments (permuted, interleaved differently or removed), the
\* returns computed for every row of that instrument are identical.
C9_NoCrossPartitionBleed ==
    result2 # <<>> =>
        \A t \in PanelTickers :
            TickerRows(panel2[1], t) = TickerRows(panel[1], t)
                => TickerRows(result2[1], t) = TickerRows(result[1], t)

\* instrument A has two rows with a row of B between them in the first panel
\* and none between them in the second
C9_Witness ==
    /\ result2 # <<>>
    /\ Len(panel[1].rows) = 3
    /\ panel[1].rows[1].TICKER = "A"
    /\ panel[1].rows[2].TICKER = "B"
    /\ panel[1].rows[3].TICKER = "A"
    /\ panel2[1].rows = <<panel[1].rows[1], panel[1].rows[3]>>
    /\ NoNullReturn(result2[1].rows[2])
    /\ TickerRows(result2[1], "A") = TickerRows(result[1], "A")

\* C15: for a row whose previous close in the same instrument is 0, both
\* LOG_RETURN and ARITHMETIC_RETURN are null or not-a-number, never an
\* infinity or a finite value, and the returns of the rows that do not involve
\* the zero close are what they are when the close is not zero.
C15_ZeroPrevCloseGivesNullOrNaN ==
    result # <<>> =>
        \A i \in DOMAIN panel[1].rows :
            IF shift_1_over_ticker(panel[1].rows, i) = Fin(0)
            THEN /\ result[1].rows[i].LOG_RETURN.k \in {"null", "nan"}
                 /\ result[1].rows[i].ARITHMETIC_RETURN.k \in {"null", "nan"}
            ELSE (panel[1].rows[i].CLOSE # Fin(0)) =>
                    /\ result[1].rows[i].LOG_RETURN.k \in {"null", "fin"}
                    /\ result[1].rows[i].ARITHMETIC_RETURN.k \in {"null", "fin"}

-----------------------------------------------------------------------------
(* calculators/base.py: CalculatorBase.execute *)

\* DailyReturnsCalculator.output_schema(): an ordered mapping name -> dtype
DailyReturns_output_schema ==
    << [name |-> "BUSINESS_DATE", dtype |-> "Date"],
       [name |-> "TICKER", dtype |-> "Utf8"],
       [name |-> "CLOSE", dtype |-> "Float64"],
       [name |-> "LOG_RETURN", dtype |-> "Float64"],
       [name |-> "ARITHMETIC_RETURN", dtype |-> "Float64"] >>

MissingColumn(c) == [kind |-> "Missing expected column", col |-> c]
WrongDtype(c) == [kind |-> "Column has dtype, expected", col |-> c]

check_column_presence_only(df, col) ==
    IF ~HasColumn(df, col.name) THEN MissingColumn(col.name) ELSE NoError

\* the body of the loop of execute() for one schema entry: the error it
\* raises, or NoError
check_column(df, col) ==
    IF ~HasColumn(df, col.name) THEN MissingColumn(col.name)
    ELSE IF DtypeOf(df, col.name) # col.dtype THEN WrongDtype(col.name)
    ELSE NoError

\* the loop of execute() from schema entry i on: the first error raised
RECURSIVE check_schema(_, _, _)
check_schema(df, schema, i) ==
    IF i > Len(schema) THEN NoError
    ELSE LET e == check_column(df, schema[i])
         IN  IF e # NoError THEN e ELSE check_schema(df, schema, i + 1)

project_nothing(df, schema) == df

\* df.select(list(schema.keys()))
project(df, schema) == select(df, [i \in DOMAIN schema |-> schema[i].name])

\* CalculatorBase.execute() on the table df that calculate() returned:
\* [raised, out], out being <<>> when an error was raised
execute(df, schema) ==
    LET e == check_schema(df, schema, 1)
    IN  [raised |-> e,
         out |-> IF e = NoError THEN <<project(df, schema)>> ELSE <<>>]

\* The tables calculate() may hand to execute(): any arrangement of columns
\* among the schema's columns and the scratch column PREV_CLOSE, at most
\* MaxMistyped of them with a dtype other than the natural one; one row.
MaxMistyped == 1

Dtypes == {"Date", "Utf8", "Float64", "Int64"}

ScratchColumns == << [name |-> "PREV_CLOSE", dtype |-> "Float64"] >>

CandidateColumns == Range(DailyReturns_output_schema) \cup Range(ScratchColumns)

SampleCell(c) ==
    CASE c = "BUSINESS_DATE" -> 0
      [] c = "TICKER" -> "A"
      [] OTHER -> Fin(1)

\* the dtypes of cols, changed in at most MaxMistyped places
Retyped(cols) ==
    UNION {{[i \in DOMAIN cols |-> IF i \in D THEN g[i] ELSE cols[i].dtype] :
               g \in {h \in [D -> Dtypes] : \A i \in D : h[i] # cols[i].dtype}} :
           D \in {E \in SUBSET DOMAIN cols : Cardinality(E) <= MaxMistyped}}

\* the one-row table with the columns cols, retyped as dtypes
CalculatedTable(cols, dtypes) ==
    [schema |-> [i \in DOMAIN cols |-> [name |-> cols[i].name, dtype |-> dtypes[i]]],
     rows |-> << [c \in {cols[i].name : i \in DOMAIN cols} |-> SampleCell(c)] >>]

CalculatedColumns == Arrangements(CandidateColumns, Cardinality(CandidateColumns))

\* execute() of a calculator whose calculate() returns df
ExecuteCalculator ==
    /\ calcOut = <<>>
    /\ \E cols \in CalculatedColumns :
          \E dtypes \in Retyped(cols) :
             \E df \in {CalculatedTable(cols, dtypes)} :
             \E r \in {execute(df, DailyReturns_output_schema)} :
                 /\ calcOut' = <<df>>
                 /\ out' = r.out
                 /\ raised' = r.raised
    /\ UNCHANGED <<calls, fetched, history, cfgVars, retVars, metVars>>

InitSchema == NoConfig /\ NoPanel /\ NoExecute /\ NoMetrics

NextSchema == ExecuteCalculator

SpecSchema == InitSchema /\ [][NextSchema]_vars

-----------------------------------------------------------------------------
(* Claims about execute() *)

\* schema entry col is absent from df or has another dtype in it
Offends(df, col) ==
    \A i \in DOMAIN df.schema : df.schema[i] # col

\* C1: whenever execute() returns a table, that table has exactly the columns
\* declared by output_schema(), in the schema's order and with the declared
\* types, for every table calculate() may produce (also with scratch columns
\* or with the columns in another order).
C1_OutputMatchesSchema ==
    out # <<>> =>
        /\ out[1].schema = DailyReturns_output_schema
        /\ Len(out[1].rows) = Len(calcOut[1].rows)
        /\ \A i \in DOMAIN out[1].rows :
              /\ DOMAIN out[1].rows[i] = {"BUSINESS_DATE", "TICKER", "CLOSE",
                                          "LOG_RETURN", "ARITHMETIC_RETURN"}
              /\ \A c \in DOMAIN out[1].rows[i] : out[1].rows[i][c] = calcOut[1].rows[i][c]

\* calculate() returned the columns in another order, with a scratch column
C1_Witness ==
    /\ out # <<>>
    /\ Len(calcOut[1].schema) = 6
    /\ calcOut[1].schema[1].name = "PREV_CLOSE"
    /\ calcOut[1].schema[2].name = "ARITHMETIC_RETURN"
    /\ calcOut[1].schema[6].name = "BUSINESS_DATE"

\* C2: if the table calculate() produced lacks a schema column, or holds a
\* schema column whose type is not exactly the expected one, execute() fails
\* with an error naming such a column (the first one in schema order) and
\* returns no table; the error says "missing" exactly when the named column
\* is absent; it fails in no other case.
C2_SchemaErrorNoTable ==
    calcOut # <<>> =>
        LET schema == DailyReturns_output_schema
            bad == {i \in DOMAIN schema : Offends(calcOut[1], schema[i])}
        IN  /\ bad = {} <=> raised = NoError
            /\ bad # {} =>
                  /\ out = <<>>
                  /\ raised.col = schema[Min(bad)].name
                  /\ raised.kind = "Missing expected column"
                        <=> raised.col \notin Range(Columns(calcOut[1]))

\* every column is there and only the last schema column has a wrong dtype
C2_Witness ==
    /\ calcOut # <<>>
    /\ \A i \in DOMAIN DailyReturns_output_schema :
          HasColumn(calcOut[1], DailyReturns_output_schema[i].name)
    /\ DtypeOf(calcOut[1], "ARITHMETIC_RETURN") = "Int64"
    /\ raised = WrongDtype("ARITHMETIC_RETURN")
    /\ out = <<>>

-----------------------------------------------------------------------------
(* sources.py: the acquisition functions.  What yfinance answers is not    *)
(* decided by the program: a response is any frame of price rows, with the *)
(* documented columns, or lacking one, or with one more, or a failure of   *)
(* the transport.                                                          *)

TicksPerDay == 2    \* ticks of the clock in one calendar day

RawColumns ==
    << [name |-> "Date", dtype |-> "Datetime"],
       [name |-> "Ticker", dtype |-> "Utf8"],
       [name |-> "Close", dtype |-> "Float64"],
       [name |-> "Dividends", dtype |-> "Float64"],
       [name |-> "High", dtype |-> "Float64"],
       [name |-> "Low", dtype |-> "Float64"],
       [name |-> "Open", dtype |-> "Float64"],
       [name |-> "Stock Splits", dtype |-> "Float64"],
       [name |-> "Volume", dtype |-> "Int64"] >>

\* the row of the provider's frame for ticker t on day d: Date is midnight of d
RawRow(t, d) ==
    [c \in {RawColumns[i].name : i \in DOMAIN RawColumns} \cup {"Capital Gains"} |->
        CASE c = "Date" -> d * TicksPerDay
          [] c = "Ticker" -> t
          [] c \in {"Close", "High", "Low", "Open"} -> Fin(ClosePrice(t, d))
          [] OTHER -> Fin(0)]

RawFrame(schema, keys) ==
    [schema |-> schema,
     rows |-> [i \in DOMAIN keys |->
                  [c \in {schema[j].name : j \in DOMAIN schema} |->
                      RawRow(keys[i][1], keys[i][2])[c]]]]

RawKeys == PanelTickers \X PanelDates

\* the frames a call may return: the documented columns and any rows; or, with
\* at most one row, a frame lacking Dividends or one with Capital Gains added
ResponseShapes == {"documented", "no Dividends", "with Capital Gains"}

ResponseSchema(shape) ==
    CASE shape = "documented" -> RawColumns
      [] shape = "no Dividends" -> SelectSeq(RawColumns, LAMBDA col : col.name # "Dividends")
      [] shape = "with Capital Gains" ->
            Append(RawColumns, [name |-> "Capital Gains", dtype |-> "Float64"])

ResponseKeys(shape) == Arrangements(RawKeys, IF shape = "documented" THEN MaxRows ELSE 1)

TransportError == [kind |-> "transport error", col |-> ""]
AssertionError == [kind |-> "AssertionError", col |-> ""]

Call(fn, tickers, start, end) == [fn |-> fn, tickers |-> tickers, start |-> start, end |-> end]

\* get_single_ticker_price_history(ticker, start, end), answered by resp
\* (<<>> when the transport failed): [raised, out, calls]
get_single_ticker_price_history(ticker, start, end, resp) ==
    [raised |-> IF resp = <<>> THEN TransportError ELSE NoError,
     out |-> resp,
     calls |-> <<Call("get_single_ticker_price_history", <<ticker>>, start, end)>>]

\* get_price_history(tickers, start, end), answered by resp: the assertion
\* len(tickers) > 1 comes before the request
get_price_history(tickers, start, end, resp) ==
    IF ~(Len(tickers) > 1)
    THEN [raised |-> AssertionError, out |-> <<>>, calls |-> <<>>]
    ELSE [raised |-> IF resp = <<>> THEN TransportError ELSE NoError,
          out |-> resp,
          calls |-> <<Call("get_price_history", tickers, start, end)>>]

-----------------------------------------------------------------------------
(* calculators/yfinance_stock_data.py *)

COLUMN_RENAME_MAP ==
    << <<"Date", "BUSINESS_DATE">>, <<"Ticker", "TICKER">>, <<"Close", "CLOSE">>,
       <<"Dividends", "DIVIDENDS">>, <<"High", "HIGH">>, <<"Low", "LOW">>,
       <<"Open", "OPEN">>, <<"Stock Splits", "STOCK_SPLITS">>, <<"Volume", "VOLUME">> >>

YFinance_output_schema ==
    << [name |-> "BUSINESS_DATE", dtype |-> "Date"],
       [name |-> "TICKER", dtype |-> "Utf8"],
       [name |-> "CLOSE", dtype |-> "Float64"],
       [name |-> "DIVIDENDS", dtype |-> "Float64"],
       [name |-> "HIGH", dtype |-> "Float64"],
       [name |-> "LOW", dtype |-> "Float64"],
       [name |-> "OPEN", dtype |-> "Float64"],
       [name |-> "STOCK_SPLITS", dtype |-> "Float64"],
       [name |-> "VOLUME", dtype |-> "Float64"] >>

ColumnNotFound(c) == [kind |-> "ColumnNotFoundError", col |-> c]

\* the new name of column c under the mapping
Renamed(mapping, c) ==
    IF \E i \in DOMAIN mapping : mapping[i][1] = c
    THEN mapping[CHOOSE i \in DOMAIN mapping : mapping[i][1] = c][2]
    ELSE c

\* DataFrame.rename(mapping), for a frame that has every column the mapping names
rename(df, mapping) ==
    [schema |-> [i \in DOMAIN df.schema |->
                    [name |-> Renamed(mapping, df.schema[i].name), dtype |-> df.schema[i].dtype]],
     rows |-> [i \in DOMAIN df.rows |->
                  [c \in {Renamed(mapping, x) : x \in DOMAIN df.rows[i]} |->
                      df.rows[i][CHOOSE x \in DOMAIN df.rows[i] : Renamed(mapping, x) = c]]]]

\* Expr.cast(dtype) of one cell of dtype from: a Datetime cast to Date keeps the
\* day; the numbers of the model are the same in Int64 and Float64
cast_cell(v, from, to) ==
    IF from = "Datetime" /\ to = "Date" THEN v \div TicksPerDay ELSE v

\* df.with_columns(pl.col(c).cast(dtype), ...) for the [name, dtype] of casts
cast_columns(df, casts) ==
    with_columns(df, casts,
        [c \in {casts[k].name : k \in DOMAIN casts} |->
            [i \in DOMAIN df.rows |->
                cast_cell(df.rows[i][c], DtypeOf(df, c),
                          casts[CHOOSE k \in DOMAIN casts : casts[k].name = c].dtype)]])

YFinanceCasts == SelectSeq(YFinance_output_schema, LAMBDA col : col.name # "TICKER")

YFinance_calculate_always_many(c, resp) ==
    LET got == get_price_history(c.tickers, c.start, c.end, resp)
        absent == {i \in DOMAIN COLUMN_RENAME_MAP :
                      got.out # <<>> /\ ~HasColumn(got.out[1], COLUMN_RENAME_MAP[i][1])}
    IN  IF got.raised # NoError THEN [raised |-> got.raised, out |-> <<>>, calls |-> got.calls]
        ELSE IF absent # {}
        THEN [raised |-> ColumnNotFound(COLUMN_RENAME_MAP[Min(absent)][1]),
              out |-> <<>>, calls |-> got.calls]
        ELSE [raised |-> NoError,
              out |-> <<cast_columns(rename(got.out[1], COLUMN_RENAME_MAP), YFinanceCasts)>>,
              calls |-> got.calls]

\* YFinanceStockDataCalculator.calculate() for config c, the acquisition call
\* answered by resp: [raised, out, calls]
YFinance_calculate(c, resp) ==
    LET got == IF Len(c.tickers) = 1
               THEN get_single_ticker_price_history(c.tickers[1], c.start, c.end, resp)
               ELSE get_price_history(c.tickers, c.start, c.end, resp)
        absent == {i \in DOMAIN COLUMN_RENAME_MAP :
                      got.out # <<>> /\ ~HasColumn(got.out[1], COLUMN_RENAME_MAP[i][1])}
    IN  IF got.raised # NoError THEN [raised |-> got.raised, out |-> <<>>, calls |-> got.calls]
        ELSE IF absent # {}
        THEN [raised |-> ColumnNotFound(COLUMN_RENAME_MAP[Min(absent)][1]),
              out |-> <<>>, calls |-> got.calls]
        ELSE [raised |-> NoError,
              out |-> <<cast_columns(rename(got.out[1], COLUMN_RENAME_MAP), YFinanceCasts)>>,
              calls |-> got.calls]

\* YFinanceStockDataCalculator(c).execute()
YFinance_execute(c, resp) ==
    LET calc == YFinance_calculate(c, resp)
    IN  IF calc.raised # NoError THEN calc
        ELSE LET r == execute(calc.out[1], YFinance_output_schema)
             IN  [raised |-> r.raised, out |-> r.out, calls |-> calc.calls]

-----------------------------------------------------------------------------
(* calculators/daily_returns.py: DailyReturnsCalculator *)

BufferDays == 7

minus_no_days(dt, n) == dt

\* datetime - timedelta(days=n)
minus_days(dt, n) == [dt EXCEPT !.wall = @ - n * TicksPerDay]

\* datetime.date(): the calendar day of the wall clock
date(dt) == dt.wall \div TicksPerDay

ValidationError(msg) == [kind |-> "ValidationError", col |-> msg]

\* DailyReturnsCalculator._fetch_stock_data() for config c: [raised, out, calls]
fetch_stock_data(c, resp) ==
    LET stock_config == NewConfig("YFinanceStockDataCalculatorConfig",
                                  minus_days(c.start, BufferDays), c.end, c.tickers)
    IN  IF stock_config.obj = <<>>
        THEN [raised |-> ValidationError(stock_config.err), out |-> <<>>, calls |-> <<>>]
        ELSE LET r == YFinance_execute(stock_config.obj[1], resp)
             IN  IF r.raised # NoError THEN r
                 ELSE [raised |-> NoError, out |-> <<sort(r.out[1])>>, calls |-> r.calls]

in_window_after_start(r, c) ==
    r.BUSINESS_DATE > date(c.start) /\ r.BUSINESS_DATE <= date(c.end)

\* (pl.col("BUSINESS_DATE") >= start.date()) & (pl.col("BUSINESS_DATE") <= end.date())
in_window(r, c) ==
    r.BUSINESS_DATE >= date(c.start) /\ r.BUSINESS_DATE <= date(c.end)

\* df.filter(...) of calculate(), for config c
with_returns_in_window(df, c) ==
    filter(df, [i \in DOMAIN df.rows |-> in_window(df.rows[i], c)])

\* DailyReturnsCalculator.calculate() for config c: [raised, out, calls]
DailyReturns_calculate(c, resp) ==
    LET f == fetch_stock_data(c, resp)
    IN  IF f.raised # NoError THEN f
        ELSE [raised |-> NoError,
              out |-> <<with_returns_in_window(compute_returns(f.out[1]), c)>>,
              calls |-> f.calls]

\* DailyReturnsCalculator(c).execute(): [raised, out, calls, calculated]
DailyReturns_execute(c, resp) ==
    LET calc == DailyReturns_calculate(c, resp)
    IN  IF calc.raised # NoError
        THEN [raised |-> calc.raised, out |-> <<>>, calls |-> calc.calls, calculated |-> <<>>]
        ELSE LET r == execute(calc.out[1], DailyReturns_output_schema)
             IN  [raised |-> r.raised, out |-> r.out, calls |-> calc.calls,
                  calculated |-> calc.out]

\* The configs of a DailyReturnsCalculator: those the constructor accepts
CalculatorTickers == {<<"A">>, <<"A", "B">>}

DailyReturnsConfigs ==
    {NewConfig("DailyReturnsCalculatorConfig", Naive(s), Naive(e), t).obj :
        s \in 0..MaxWall, e \in 0..MaxWall, t \in CalculatorTickers} \ {<<>>}

\* DailyReturnsCalculator(cfg).execute(), the acquisition call answered by a
\* frame or by a failure of the transport
ExecuteDailyReturns ==
    /\ cfg # <<>>
    /\ cfg[1].cls = "DailyReturnsCalculatorConfig"
    /\ calls = <<>>
    /\ raised = NoError
    /\ \E resp \in {<<>>} \cup
                  UNION {{<<RawFrame(ResponseSchema(shape), keys)>> : keys \in ResponseKeys(shape)} :
                         shape \in ResponseShapes} :
          \E r \in {DailyReturns_execute(cfg[1], resp)} :
              /\ fetched' = resp
              /\ calls' = r.calls
              /\ calcOut' = r.calculated
              /\ out' = r.out
              /\ raised' = r.raised
    /\ UNCHANGED <<history, cfgVars, retVars, metVars>>

Init ==
    /\ cfgArgs = <<>>
    /\ cfg \in DailyReturnsConfigs
    /\ cfgBuilt = cfg
    /\ cfgErr = "none"
    /\ assigns = 0
    /\ NoPanel
    /\ NoExecute
    /\ NoMetrics

Next == ExecuteDailyReturns

Spec == Init /\ [][Next]_vars

-----------------------------------------------------------------------------
(* Claims about DailyReturnsCalculator *)

\* calendar day d has an instant in the closed interval [start, end]
DayInWindow(d, start, end) ==
    /\ (d + 1) * TicksPerDay > Instant(start)
    /\ d * TicksPerDay <= Instant(end)

\* the observations of a frame as <<ticker, day, close>>, from its columns
\* named ticker, day, close; ticksPerUnit is the length of the day column's unit
Observations(df, ticker, day, close, ticksPerUnit) ==
    {<<df.rows[i][ticker], df.rows[i][day] \div ticksPerUnit, df.rows[i][close]>> :
        i \in DOMAIN df.rows}

\* C10: the data is requested for [start - 7 days, end], and the returned
\* table contains exactly the fetched rows whose business date lies in the
\* requested window [start, end] inclusive: every row dated before start or
\* after end is excluded and no in-window row is dropped.
C10_BufferedRequestTrimmedOutput ==
    /\ calls # <<>> =>
          /\ Len(calls) = 1
          /\ Instant(calls[1].start) = Instant(cfg[1].start) - 7 * TicksPerDay
          /\ Instant(calls[1].end) = Instant(cfg[1].end)
    /\ out # <<>> =>
          LET got == Observations(out[1], "TICKER", "BUSINESS_DATE", "CLOSE", 1)
              had == Observations(fetched[1], "Ticker", "Date", "Close", TicksPerDay)
          IN  /\ got = {o \in had : DayInWindow(o[2], cfg[1].start, cfg[1].end)}
              /\ Len(out[1].rows) = Cardinality(got)

\* a row before the window, one in it and one after it were fetched
C10_Witness ==
    /\ out # <<>>
    /\ Len(fetched[1].rows) = 3
    /\ fetched[1].rows[1].Date \div TicksPerDay > date(cfg[1].end)
    /\ fetched[1].rows[2].Date \div TicksPerDay < date(cfg[1].start)
    /\ DayInWindow(fetched[1].rows[3].Date \div TicksPerDay, cfg[1].start, cfg[1].end)
    /\ Len(out[1].rows) = 1
    /\ cfg[1].end.wall % TicksPerDay # 0

\* the fetched rows of ticker t dated before day d
FetchedBefore(t, d) ==
    {i \in DOMAIN fetched[1].rows :
        /\ fetched[1].rows[i].Ticker = t
        /\ fetched[1].rows[i].Date \div TicksPerDay < d}

\* the fetched row of ticker t dated last before day d
FetchedPrev(t, d) ==
    CHOOSE i \in FetchedBefore(t, d) :
        \A j \in FetchedBefore(t, d) : fetched[1].rows[j].Date <= fetched[1].rows[i].Date

\* C17: whatever row order the stock-data calculator returned, each return of
\* the calculator's output is computed against the chronologically preceding
\* fetched observation of the same ticker (and is null when there is none);
\* and the calculator's inner config is valid, so that no validation error
\* arises inside calculate().
C17_SortedBeforeReturnsInnerConfigValid ==
    /\ raised.kind # "ValidationError"
    /\ out # <<>> =>
          \A i \in DOMAIN out[1].rows :
              LET row == out[1].rows[i]
                  before == FetchedBefore(row.TICKER, row.BUSINESS_DATE)
                  prev == fetched[1].rows[FetchedPrev(row.TICKER, row.BUSINESS_DATE)].Close
              IN  IF before = {}
                  THEN row.LOG_RETURN = Null /\ row.ARITHMETIC_RETURN = Null
                  ELSE /\ row.LOG_RETURN = ExpectedLog(row.CLOSE, prev)
                       /\ row.ARITHMETIC_RETURN = ExpectedArithmetic(row.CLOSE, prev)

\* ticker A was fetched with its later day first, and a row of B between: the
\* output's row of the later day has the return against the earlier day
C17_Witness ==
    /\ out # <<>>
    /\ Len(fetched[1].rows) = 3
    /\ fetched[1].rows[1].Ticker = "A" /\ fetched[1].rows[1].Date = 1 * TicksPerDay
    /\ fetched[1].rows[2].Ticker = "B"
    /\ fetched[1].rows[3].Ticker = "A" /\ fetched[1].rows[3].Date = 0
    /\ \E i \in DOMAIN out[1].rows :
          /\ out[1].rows[i].TICKER = "A"
          /\ out[1].rows[i].BUSINESS_DATE = 1
          /\ out[1].rows[i].LOG_RETURN = Fin(1)

\* execute() has returned a table or raised
Executed == out # <<>> \/ raised # NoError

\* C18: a one-ticker config is routed to get_single_ticker_price_history and
\* any other to get_price_history, so the assertion len(tickers) > 1 is never
\* violated; the acquisition function is called exactly once per execute(),
\* and when that call fails the failure is what execute() raises.
C18_RoutedByTickerCountCalledOnce ==
    Executed =>
        /\ Len(calls) = 1
        /\ calls[1].fn = IF Len(cfg[1].tickers) = 1 THEN "get_single_ticker_price_history"
                         ELSE "get_price_history"
        /\ calls[1].tickers = cfg[1].tickers
        /\ raised # AssertionError
        /\ fetched = <<>> => (raised = TransportError /\ out = <<>>)

\* the only call of a one-ticker config failed in the transport
C18_Witness ==
    /\ Executed
    /\ Len(cfg[1].tickers) = 1
    /\ calls[1].fn = "get_single_ticker_price_history"
    /\ fetched = <<>>
    /\ raised = TransportError

-----------------------------------------------------------------------------
(* DailyReturnsCalculator over a provider that holds a price history: the  *)
(* call of Ticker.history(start, end) in sources.py is answered with the   *)
(* observations of the requested tickers on the days of [start, end].      *)

\* the days of the provider's observations: the days 0..MaxDate of the windows
\* and two days further back than the buffer reaches from day 1
HistoryDays == {0 - (BufferDays + 1), 0 - BufferDays} \cup PanelDates

Histories == {h \in SUBSET (PanelTickers \X HistoryDays) : Cardinality(h) <= MaxRows}

\* yfinance's history(start=start, end=end) for the tickers, over hist
Ticker_history(hist, tickers, start, end) ==
    {k \in hist : k[1] \in Range(tickers) /\ DayInWindow(k[2], start, end)}

\* the keys of S by day, the tickers of one day in their order
RECURSIVE ByDay(_)
ByDay(S) ==
    IF S = {} THEN <<>>
    ELSE LET k == CHOOSE k \in S :
                     \A o \in S : \/ k[2] < o[2]
                                  \/ k[2] = o[2] /\ TickerRank(k[1]) <= TickerRank(o[1])
         IN  <<k>> \o ByDay(S \ {k})

Reverse(s) == [i \in DOMAIN s |-> s[Len(s) + 1 - i]]

\* DailyReturnsCalculator(cfg).execute(), the acquisition call answered from
\* the history h, its rows by day ascending or descending
ExecuteOverHistory ==
    /\ cfg # <<>>
    /\ cfg[1].cls = "DailyReturnsCalculatorConfig"
    /\ calls = <<>>
    /\ raised = NoError
    /\ \E h \in Histories, descending \in BOOLEAN :
          \E call \in Range(fetch_stock_data(cfg[1], <<>>).calls) :
          \E keys \in {ByDay(Ticker_history(h, call.tickers, call.start, call.end))} :
          \E resp \in {<<RawFrame(RawColumns, IF descending THEN Reverse(keys) ELSE keys)>>} :
          \E r \in {DailyReturns_execute(cfg[1], resp)} :
              /\ history' = h
              /\ fetched' = resp
              /\ calls' = r.calls
              /\ calcOut' = r.calculated
              /\ out' = r.out
              /\ raised' = r.raised
    /\ UNCHANGED <<cfgVars, retVars, metVars>>

NextBuffer == ExecuteOverHistory

SpecBuffer == Init /\ [][NextBuffer]_vars

\* the days of ticker t's observations in the requested window
WindowDays(t) ==
    {k[2] : k \in {k \in history : k[1] = t /\ DayInWindow(k[2], cfg[1].start, cfg[1].end)}}

\* the days of ticker t's observations before day d
DaysBefore(t, d) == {k[2] : k \in {k \in history : k[1] = t /\ k[2] < d}}

\* the output has a row of ticker t on day d with both returns a number
HasReturns(t, d) ==
    \E i \in DOMAIN out[1].rows :
        /\ out[1].rows[i].TICKER = t
        /\ out[1].rows[i].BUSINESS_DATE = d
        /\ out[1].rows[i].LOG_RETURN.k = "fin"
        /\ out[1].rows[i].ARITHMETIC_RETURN.k = "fin"

-----------------------------------------------------------------------------
(* calculations.py: the Metrics engine.  The Float64 cells of a metrics    *)
(* table hold numbers in units of 1/PriceScale, rounded down to that unit; *)
(* a logarithm of closes is in units of ln 2, as in compute_returns.       *)

\* a + b on Float64 cells
FAdd(a, b) ==
    CASE a.k = "null" \/ b.k = "null" -> Null
      [] a.k = "nan" \/ b.k = "nan" -> NaN
      [] a.k = "inf" /\ b.k = "inf" -> IF a.v = b.v THEN a ELSE NaN
      [] a.k = "inf" -> a
      [] b.k = "inf" -> b
      [] OTHER -> Fin(a.v + b.v)

\* a * b on Float64 cells
FMul(a, b) ==
    CASE a.k = "null" \/ b.k = "null" -> Null
      [] a.k = "nan" \/ b.k = "nan" -> NaN
      [] a.k = "inf" \/ b.k = "inf" ->
            IF a.v = 0 \/ b.v = 0 THEN NaN ELSE Inf(Sign(a.v) * Sign(b.v))
      [] OTHER -> Fin((a.v * b.v) \div PriceScale)

\* the largest r in lo..hi with r * r <= n, found by bisection
RECURSIVE ISqrtIn(_, _, _)
ISqrtIn(n, lo, hi) ==
    IF lo = hi THEN lo
    ELSE LET mid == (lo + hi + 1) \div 2
         IN  IF mid * mid <= n THEN ISqrtIn(n, mid, hi) ELSE ISqrtIn(n, lo, mid - 1)

\* the largest r with r * r <= n
ISqrt(n) == ISqrtIn(n, 0, IF n < 2 ^ 15 THEN n ELSE 2 ^ 15)

\* Expr.sqrt() on a Float64 cell
FSqrt(a) ==
    CASE a.k = "null" -> Null
      [] a.k = "nan" -> NaN
      [] a.k = "inf" -> IF a.v > 0 THEN PosInf ELSE NaN
      [] a.v < 0 -> NaN
      [] OTHER -> Fin(ISqrt(a.v * PriceScale))

\* Expr.abs() on a Float64 cell
FAbs(a) == IF a.k \in {"fin", "inf"} /\ a.v < 0 THEN [a EXCEPT !.v = 0 - a.v] ELSE a

\* a ** n on a Float64 cell, n a whole number
RECURSIVE FPow(_, _)
FPow(a, n) ==
    IF n = 0 THEN Fin(PriceScale)
    ELSE IF n % 2 = 1 THEN FMul(a, FPow(a, n - 1))
    ELSE LET half == CHOOSE h \in {FPow(a, n \div 2)} : TRUE
         IN  FMul(half, half)

\* Expr.log() of a quotient a / b of closes, in units of ln 2
FLogRatio(q) ==
    CASE q.k = "null" -> Null
      [] q.k = "nan" -> NaN
      [] q.k = "inf" -> IF q.v > 0 THEN PosInf ELSE NaN
      [] q.v = 0 -> NegInf
      [] q.v < 0 -> NaN
      [] OTHER -> Fin((CHOOSE k \in 0..30 : 2 ^ k = q.v) - Log2(PriceScale))

\* the values of column col in the rows 1..last that share row i's value of
\* column part, nulls left out
PartitionValues(rows, i, col, part, last) ==
    LET js == {j \in DOMAIN rows : j <= last /\ rows[j][part] = rows[i][part]
                                    /\ rows[j][col].k # "null"}
    IN  [j \in js |-> rows[j][col]]

\* the sum of the cells of the function cells
RECURSIVE FSum(_)
FSum(cells) ==
    IF DOMAIN cells = {} THEN Fin(0)
    ELSE LET j == CHOOSE j \in DOMAIN cells : TRUE
         IN  FAdd(cells[j], FSum([x \in DOMAIN cells \ {j} |-> cells[x]]))

\* pl.col(col).shift(1).over(part), at row i
shift_1_over(rows, i, col, part) ==
    LET earlier == {j \in DOMAIN rows : j < i /\ rows[j][part] = rows[i][part]}
    IN  IF earlier = {} THEN Null ELSE rows[Max(earlier)][col]

\* pl.col(col).cum_sum().over(part), at row i: a null stays null and is left
\* out of the sums of the later rows
cum_sum_over(rows, i, col, part) ==
    IF rows[i][col].k = "null" THEN Null
    ELSE FSum(PartitionValues(rows, i, col, part, i))

\* pl.col(col).mean().over(part), at row i
mean_over(rows, i, col, part) ==
    LET cells == PartitionValues(rows, i, col, part, Len(rows))
        n == Cardinality(DOMAIN cells)
        total == FSum(cells)
    IN  IF n = 0 THEN Null
        ELSE IF total.k = "fin" THEN Fin(total.v \div n) ELSE total

\* pl.col(col).std().over(part), at row i: the sample standard deviation
std_over(rows, i, col, part) ==
    LET cells == PartitionValues(rows, i, col, part, Len(rows))
        n == Cardinality(DOMAIN cells)
        total == FSum(cells)
        squares == FSum([j \in DOMAIN cells |->
                            IF cells[j].k = "fin" THEN Fin(cells[j].v * cells[j].v)
                            ELSE NaN])
    IN  IF n <= 1 THEN Null
        ELSE IF total.k = "fin" /\ squares.k = "fin"
        THEN Fin(ISqrt((n * squares.v - total.v * total.v) \div (n * (n - 1))))
        ELSE NaN

Float64Column(name) == [name |-> name, dtype |-> "Float64"]

\* the table df.with_columns(name=expr) returns, or the error it raises: reads
\* are the columns the expression names, in order, and cells[i] is its value
\* at row i
with_column(df, reads, name, cells) ==
    LET absent == {k \in DOMAIN reads : ~HasColumn(df, reads[k])}
    IN  IF absent # {}
        THEN [raised |-> ColumnNotFound(reads[Min(absent)]), out |-> <<>>]
        ELSE [raised |-> NoError,
              out |-> <<with_columns(df, <<Float64Column(name)>>, [c \in {name} |-> cells])>>]

\* Metrics.log_returns(df, partition_col, close_col)
Metrics_log_returns(df, partition_col, close_col) ==
    LET prev == with_column(df, <<close_col, partition_col>>, "PREV_CLOSE",
                    [i \in DOMAIN df.rows |->
                        shift_1_over(df.rows, i, close_col, partition_col)])
    IN  IF prev.raised # NoError THEN prev
        ELSE with_column(prev.out[1], <<close_col, "PREV_CLOSE">>, "LOG_RETURN",
                 [i \in DOMAIN df.rows |->
                     FLogRatio(FDiv(prev.out[1].rows[i][close_col],
                                    prev.out[1].rows[i].PREV_CLOSE))])

\* Metrics.abs_log_returns(df, partition_col)
Metrics_abs_log_returns(df, partition_col) ==
    with_column(df, <<"log_return">>, "abs_log_return",
        [i \in DOMAIN df.rows |-> FAbs(df.rows[i].log_return)])

\* Metrics.cumulative_returns(df, partition_col)
Metrics_cumulative_returns(df, partition_col) ==
    with_column(df, <<"log_return", partition_col>>, "cumulative_return",
        [i \in DOMAIN df.rows |-> cum_sum_over(df.rows, i, "log_return", partition_col)])

\* Metrics.mean_returns(df, partition_col, log_return_col)
Metrics_mean_returns(df, partition_col, log_return_col) ==
    with_column(df, <<log_return_col, partition_col>>, "MEAN_RETURN",
        [i \in DOMAIN df.rows |-> mean_over(df.rows, i, log_return_col, partition_col)])

\* Metrics.std_dev_returns(df, partition_col, log_return_col)
Metrics_std_dev_returns(df, partition_col, log_return_col) ==
    with_column(df, <<log_return_col, partition_col>>, "STD_DEV_RETURN",
        [i \in DOMAIN df.rows |-> std_over(df.rows, i, log_return_col, partition_col)])

\* Metrics.annualized_returns(df, partition_col, annualization_factor)
Metrics_annualized_returns(df, partition_col, annualization_factor) ==
    with_column(df, <<"mean_return", partition_col>>, "annualized_return",
        [i \in DOMAIN df.rows |->
            FSub(FPow(FAdd(Fin(PriceScale), df.rows[i].mean_return), annualization_factor),
                 Fin(PriceScale))])

\* Metrics.squared_diff(df, partition_col)
Metrics_squared_diff(df, partition_col) ==
    with_column(df, <<"log_return", "mean_return", partition_col>>, "sum_squared_diff",
        [i \in DOMAIN df.rows |->
            FPow(FSub(df.rows[i].log_return, df.rows[i].mean_return), 2)])

Metrics_realized_variance_in_place(df, partition_col) ==
    with_column(df, <<"sum_squared_diff", partition_col>>, "sum_squared_diff",
        [i \in DOMAIN df.rows |-> mean_over(df.rows, i, "sum_squared_diff", partition_col)])

\* Metrics.realized_variance(df, partition_col)
Metrics_realized_variance(df, partition_col) ==
    with_column(df, <<"sum_squared_diff", partition_col>>, "realized_variance",
        [i \in DOMAIN df.rows |-> mean_over(df.rows, i, "sum_squared_diff", partition_col)])

\* Metrics.realized_volatility(df, partition_col)
Metrics_realized_volatility(df, partition_col) ==
    with_column(df, <<"realized_variance", partition_col>>, "realized_volatility",
        [i \in DOMAIN df.rows |-> FSqrt(df.rows[i].realized_variance)])

\* Metrics.annualized_realized_volatility(df, partition_col, annualization_factor)
Metrics_annualized_realized_volatility(df, partition_col, annualization_factor) ==
    with_column(df, <<"realized_volatility">>, "annualized_realized_volatility",
        [i \in DOMAIN df.rows |->
            FMul(df.rows[i].realized_volatility,
                 FSqrt(Fin(annualization_factor * PriceScale)))])

\* Metrics.sharpe_ratio(df, partition_col): the division binds tighter than
\* the subtraction
Metrics_sharpe_ratio(df, partition_col) ==
    with_column(df, <<"annualized_return", "ANNUALIZED_RISK_FREE_RATE",
                      "annualized_realized_volatility">>, "sharpe_ratio",
        [i \in DOMAIN df.rows |->
            FSub(df.rows[i].annualized_return,
                 FDiv(df.rows[i].ANNUALIZED_RISK_FREE_RATE,
                      df.rows[i].annualized_realized_volatility))])

\* The tables handed to the engine: a price panel as the calculators return it,
\* or a table that already has the first columns of those the later steps
\* read, as if the steps before had been run under these names
MetricsColumns ==
    << "log_return", "mean_return", "sum_squared_diff", "realized_variance",
       "realized_volatility", "annualized_return", "ANNUALIZED_RISK_FREE_RATE",
       "annualized_realized_volatility" >>

MetricsTableSchema(n) ==
    << [name |-> "Date", dtype |-> "Date"], [name |-> "Ticker", dtype |-> "Utf8"] >>
        \o [k \in 1..n |-> Float64Column(MetricsColumns[k])]

\* the cell of column c in the row of ticker t on day d of such a table
MetricsCell(c, t, d) ==
    LET n == d % 3
        one == PriceScale
    IN  CASE c = "Date" -> d
          [] c = "Ticker" -> t
          [] c = "log_return" ->
                IF n = 0 THEN Null ELSE Fin(IF t = "A" THEN n * one ELSE 0 - n * one)
          [] c = "mean_return" ->
                IF t = "A" THEN Fin(0 - n * one) ELSE <<Null, NaN, Fin(0)>>[n + 1]
          [] c = "sum_squared_diff" ->
                IF t = "A" THEN Fin(n * n * one) ELSE <<Null, Fin(one), PosInf>>[n + 1]
          [] c = "realized_variance" ->
                IF t = "A" THEN Fin(4 * n * one) ELSE <<Null, Fin(0 - one), Fin(one)>>[n + 1]
          [] c = "realized_volatility" ->
                IF t = "A" THEN Fin(n * one) ELSE <<Null, NaN, Fin(one \div 2)>>[n + 1]
          [] c = "annualized_return" -> IF t = "A" THEN Fin(2 * (n + 1) * one) ELSE Fin(0)
          [] c = "ANNUALIZED_RISK_FREE_RATE" -> IF t = "A" THEN Fin(one) ELSE Fin(2 * one)
          [] c = "annualized_realized_volatility" ->
                IF t = "A" THEN <<Fin(0), Fin(one \div 2), Fin(2 * one)>>[n + 1]
                ELSE <<Fin(one), Null, Fin(0 - one)>>[n + 1]

MetricsTable(n, keys) ==
    [schema |-> MetricsTableSchema(n),
     rows |-> [i \in DOMAIN keys |->
                  [c \in Range(Columns([schema |-> MetricsTableSchema(n)])) |->
                      MetricsCell(c, keys[i][1], keys[i][2])]]]

\* the output of log_returns for a price panel, its columns renamed by the
\* caller to the names the later steps read
LogReturnTables ==
    {rename(Metrics_log_returns(df, "TICKER", "CLOSE").out[1],
            << <<"TICKER", "Ticker">>, <<"LOG_RETURN", "log_return">> >>) : df \in Panels}

MetricsInputs ==
    Panels \cup LogReturnTables
           \cup {MetricsTable(n, keys) :
                    n \in DOMAIN MetricsColumns, keys \in Arrangements(RawKeys, MaxRows)}

\* the order in which the steps are documented to be chained
DocumentedSequence ==
    << "log_returns", "mean_returns", "std_dev_returns", "cumulative_returns",
       "squared_diff", "realized_variance", "realized_volatility",
       "annualized_returns", "annualized_realized_volatility", "sharpe_ratio" >>

\* The caller calls one step on the table it was handed, and perhaps the same
\* step again on the table it got, or the steps of the documented sequence one
\* after the other, each on the table the step before returned; it stops at the
\* first error.
MayCall(name) ==
    /\ table # <<>>
    /\ stepErr = NoError
    /\ \/ steps = <<>>
       \/ steps = <<name>>
       \/ /\ Len(steps) < Len(DocumentedSequence)
          /\ steps = SubSeq(DocumentedSequence, 1, Len(steps))
          /\ DocumentedSequence[Len(steps) + 1] = name

\* the call of step name returned or raised r
Called(name, r) ==
    /\ lastIn' = table
    /\ steps' = Append(steps, name)
    /\ stepErr' = r.raised
    /\ table' = IF r.raised = NoError THEN r.out ELSE table
    /\ UNCHANGED <<inputTable, cfgVars, retVars, exeVars>>

\* annualization_factor: float = 252.0
DefaultAnnualizationFactor == 252

\* Each step is called with its default arguments
Call_log_returns ==
    /\ MayCall("log_returns")
    /\ \E r \in {Metrics_log_returns(table[1], "TICKER", "CLOSE")} : Called("log_returns", r)

Call_abs_log_returns ==
    /\ MayCall("abs_log_returns")
    /\ \E r \in {Metrics_abs_log_returns(table[1], "Ticker")} : Called("abs_log_returns", r)

Call_cumulative_returns ==
    /\ MayCall("cumulative_returns")
    /\ \E r \in {Metrics_cumulative_returns(table[1], "Ticker")} :
          Called("cumulative_returns", r)

Call_mean_returns ==
    /\ MayCall("mean_returns")
    /\ \E r \in {Metrics_mean_returns(table[1], "TICKER", "LOG_RETURN")} :
          Called("mean_returns", r)

Call_std_dev_returns ==
    /\ MayCall("std_dev_returns")
    /\ \E r \in {Metrics_std_dev_returns(table[1], "TICKER", "LOG_RETURN")} :
          Called("std_dev_returns", r)

Call_annualized_returns ==
    /\ MayCall("annualized_returns")
    /\ \E r \in {Metrics_annualized_returns(table[1], "Ticker", DefaultAnnualizationFactor)} :
          Called("annualized_returns", r)

Call_squared_diff ==
    /\ MayCall("squared_diff")
    /\ \E r \in {Metrics_squared_diff(table[1], "Ticker")} : Called("squared_diff", r)

Call_realized_variance ==
    /\ MayCall("realized_variance")
    /\ \E r \in {Metrics_realized_variance(table[1], "Ticker")} :
          Called("realized_variance", r)

Call_realized_volatility ==
    /\ MayCall("realized_volatility")
    /\ \E r \in {Metrics_realized_volatility(table[1], "Ticker")} :
          Called("realized_volatility", r)

Call_annualized_realized_volatility ==
    /\ MayCall("annualized_realized_volatility")
    /\ \E r \in {Metrics_annualized_realized_volatility(table[1], "Ticker", DefaultAnnualizationFactor)} :
          Called("annualized_realized_volatility", r)

Call_sharpe_ratio ==
    /\ MayCall("sharpe_ratio")
    /\ \E r \in {Metrics_sharpe_ratio(table[1], "Ticker")} : Called("sharpe_ratio", r)

InitMetrics ==
    /\ inputTable \in {<<df>> : df \in MetricsInputs}
    /\ table = inputTable
    /\ lastIn = <<>>
    /\ steps = <<>>
    /\ stepErr = NoError
    /\ NoConfig
    /\ NoPanel
    /\ NoExecute

NextMetrics ==
    \/ Call_log_returns
    \/ Call_abs_log_returns
    \/ Call_cumulative_returns
    \/ Call_mean_returns
    \/ Call_std_dev_returns
    \/ Call_annualized_returns
    \/ Call_squared_diff
    \/ Call_realized_variance
    \/ Call_realized_volatility
    \/ Call_annualized_realized_volatility
    \/ Call_sharpe_ratio

SpecMetrics == InitMetrics /\ [][NextMetrics]_vars

-----------------------------------------------------------------------------
(* Claims about the Metrics engine *)

\* the step called last was step name and it returned a table
Returned(name) ==
    /\ steps # <<>>
    /\ steps[Len(steps)] = name
    /\ stepErr = NoError

\* C12: sharpe_ratio computes, for every row, (annualized_return -
\* risk_free_rate) / annualized_realized_volatility: the subtraction is applied
\* before the division.
C12_SharpeSubtractsBeforeDividing ==
    Returned("sharpe_ratio") =>
        \A i \in DOMAIN table[1].rows :
            LET row == table[1].rows[i]
            IN  row.sharpe_ratio =
                   FDiv(FSub(row.annualized_return, row.ANNUALIZED_RISK_FREE_RATE),
                        row.annualized_realized_volatility)

\* the caller was handed a price panel and has called the first steps of the
\* documented sequence, in order
ChainedOnPanel ==
    /\ inputTable # <<>>
    /\ Columns(inputTable[1]) = Columns([schema |-> PanelSchema, rows |-> <<>>])
    /\ steps = SubSeq(DocumentedSequence, 1, Len(steps))

\* C13: when the steps are called with their default arguments in the
\* documented sequence on a price panel, every column a step reads is already
\* present under that name: no step fails on a missing column.
C13_ChainFindsEveryColumn ==
    ChainedOnPanel => stepErr.kind # "ColumnNotFoundError"

\* the columns a step adds, by the step's name
StepWrites(name) ==
    CASE name = "log_returns" -> <<"PREV_CLOSE", "LOG_RETURN">>
      [] name = "abs_log_returns" -> <<"abs_log_return">>
      [] name = "cumulative_returns" -> <<"cumulative_return">>
      [] name = "mean_returns" -> <<"MEAN_RETURN">>
      [] name = "std_dev_returns" -> <<"STD_DEV_RETURN">>
      [] name = "annualized_returns" -> <<"annualized_return">>
      [] name = "squared_diff" -> <<"sum_squared_diff">>
      [] name = "realized_variance" -> <<"realized_variance">>
      [] name = "realized_volatility" -> <<"realized_volatility">>
      [] name = "annualized_realized_volatility" -> <<"annualized_realized_volatility">>
      [] name = "sharpe_ratio" -> <<"sharpe_ratio">>

\* the columns and the rows of the table the last step was called on are in the
\* table it returned, the columns in their places and with their values
InputKept ==
    /\ Len(table[1].schema) >= Len(lastIn[1].schema)
    /\ SubSeq(table[1].schema, 1, Len(lastIn[1].schema)) = lastIn[1].schema
    /\ Len(table[1].rows) = Len(lastIn[1].rows)
    /\ \A i \in DOMAIN lastIn[1].rows :
          \A c \in DOMAIN lastIn[1].rows[i] : table[1].rows[i][c] = lastIn[1].rows[i][c]

SortedPartitions(rows) ==
    \A i, j \in DOMAIN rows :
        (i < j /\ rows[i].Ticker = rows[j].Ticker) =>
            rows[i].BUSINESS_DATE < rows[j].BUSINESS_DATE

\* the first row of the Ticker of row i
FirstOfPartition(rows, i) == Min({j \in DOMAIN rows : rows[j].Ticker = rows[i].Ticker})

\* C16: for every partition sorted by date, the cumulative return that
\* cumulative_returns gives at observation t, the running sum of the log returns
\* that log_returns computed for the partition, equals ln(close_t / close_0),
\* close_0 being the first close of the partition.
C16_CumulativeIsLogOfPriceRelative ==
    /\ (ChainedOnPanel /\ steps # <<>> /\ steps[Len(steps)] = "cumulative_returns") =>
          stepErr = NoError
    /\ (/\ Returned("cumulative_returns")
        /\ HasColumn(table[1], "CLOSE")
        /\ SortedPartitions(table[1].rows)) =>
          \A i \in DOMAIN table[1].rows :
              table[1].rows[i].cumulative_return =
                  Fin(Log2(table[1].rows[i].CLOSE.v)
                        - Log2(table[1].rows[FirstOfPartition(table[1].rows, i)].CLOSE.v))

\* What holds of cumulative_returns on a table under the names it reads: the
\* first observation of a partition has a null cumulative return, every later
\* one the logarithm of its close over the partition's first close.
CumulativeAfterFirstObservation ==
    (/\ Returned("cumulative_returns")
     /\ HasColumn(table[1], "CLOSE")
     /\ SortedPartitions(table[1].rows)) =>
        \A i \in DOMAIN table[1].rows :
            table[1].rows[i].cumulative_return =
                IF i = FirstOfPartition(table[1].rows, i) THEN Null
                ELSE Fin(Log2(table[1].rows[i].CLOSE.v)
                           - Log2(table[1].rows[FirstOfPartition(table[1].rows, i)].CLOSE.v))

====
